---- MODULE Spec2Model ----
(***************************************************************************)
(* The in-memory task store of rocketbot-challenge-be                      *)
(* (InMemoryTaskRepository) driven through the use-case layer.  Task       *)
(* objects live on a heap and the store's list holds references to them,   *)
(* as Python lists do.                                                     *)
(***************************************************************************)
EXTENDS Integers, Sequences, FiniteSets, TLC

\* Bounds of the model.
MaxTasks == 3        \* Task objects constructed in one run
MaxHttpTasks == 2    \* Task objects constructed by the requests of one run
MaxAliasTasks == 2   \* Task objects built in a run that passes stored objects again
MaxSharedTasks == 2  \* Task objects built in a run whose caller writes to them
MaxClock == 2        \* the clock reads 0..MaxClock
MaxRequests == 2     \* requests submitted to the event loop in one run

\* The request bodies (title, category) the callers send.
Inputs == {<<"Task 1", "Work">>, <<"Task 2", "Personal">>}
ExternalTitle == "External Task"
ExternalCategory == "External"

\* Optional[...] fields: None is the empty tuple, a value v is <<v>>.
None == <<>>
Some(v) == <<v>>

VARIABLES
    heap,         \* Task objects by reference (1..Len(heap))
    tasks,        \* self._tasks: references, in list order
    next_id,      \* self._next_id
    clock,        \* what datetime.now() reads
    copy,         \* the list object made by the latest self._tasks.copy()
    held,         \* which list object the caller of find_all holds
    ret,          \* the latest call and what it returned
    created_ids,  \* history: ids of the records returned by create, in call order
    deleted,      \* history: ids for which delete returned True
    latest,       \* history: id -> (title, category) of its latest create or update,
                  \*          forgotten when delete returns True for the id
    store_log,    \* history: the store calls the latest step made
    context,      \* use case -> the Context (and so the store) it was built with
    spare,        \* the stores of the other Contexts the factory can build
    resp,         \* the latest HTTP request and its response
    workflow,     \* history: how far the calls so far follow test_complex_workflow
    requests,     \* the requests submitted to the event loop, each with its position
    running       \* the request whose coroutine holds the event loop's thread, or 0

vars == <<heap, tasks, next_id, clock, copy, held, ret, created_ids, deleted,
          latest, store_log, context, spare, resp, workflow, requests, running>>

\* The ids a caller may pass: negative, zero, every id assigned so far, and the
\* next one (never assigned).
TaskIds == (0 - 1)..next_id

\* Task(title=..., category=...): id and timestamps default to None.
Task(title, category) ==
    [id |-> None, title |-> title, category |-> category,
     created_at |-> None, updated_at |-> None]

\* datetime.now()
datetime_now == clock

\* for i, task in enumerate(ts): if task.id == task_id -> first such i, else 0
RECURSIVE ScanFrom(_, _, _, _)
ScanFrom(h, ts, task_id, i) ==
    IF i > Len(ts) THEN 0
    ELSE IF h[ts[i]].id = Some(task_id) THEN i
    ELSE ScanFrom(h, ts, task_id, i + 1)

IndexOf(h, ts, task_id) == ScanFrom(h, ts, task_id, 1)

\* del s[i]
DelAt(s, i) == [j \in 1..(Len(s) - 1) |-> IF j < i THEN s[j] ELSE s[j + 1]]

\* list.copy()
ListCopy(s) == s

\* What the latest call was and what it returned.
Ret(op, task_id, input, obj, ok) ==
    [op |-> op, task_id |-> task_id, input |-> input, obj |-> obj, ok |-> ok]

\* The inputs of test_complex_workflow.
WorkflowInputs ==
    {<<"Task 1", "Work">>, <<"Task 2", "Personal">>,
     <<"Updated Task 1", "Work Updated">>}

\* The store calls of test_complex_workflow that write or are asserted on last:
\* method, id argument, (title, category) of the Task argument.
test_complex_workflow ==
    << <<"create", 0, <<"Task 1", "Work">> >>,
       <<"create", 0, <<"Task 2", "Personal">> >>,
       <<"update", 1, <<"Updated Task 1", "Work Updated">> >>,
       <<"delete", 2, None>>,
       <<"find_all", 0, None>> >>

\* The position in test_complex_workflow after one more call.  A call that is
\* not the next one of the test ends the match, except find_all, which the test
\* also makes in between and which keeps the position.
Advance(w, op, task_id, input) ==
    IF w.on /\ w.n < Len(test_complex_workflow)
            /\ test_complex_workflow[w.n + 1] = <<op, task_id, input>>
    THEN [on |-> TRUE, n |-> w.n + 1]
    ELSE IF w.on /\ op = "find_all" THEN w
    ELSE [on |-> FALSE, n |-> 0]

\* The five use cases of the Usecases container.
UseCases == {"create", "get_all", "get_by_id", "update", "delete"}

\* The Contexts a factory may be asked for: at most one per use case.  Each
\* call of the factory builds a new InMemoryTaskRepository.
Instances == 1..Cardinality(UseCases)

\* InMemoryTaskRepository.__init__
EmptyStore == [tasks |-> <<>>, next_id |-> 1]

\* create_usecases that asks the factory for a Context per use case
create_usecases_context_each ==
    [u \in UseCases |->
        CASE u = "create" -> 1 [] u = "get_all" -> 2 [] u = "get_by_id" -> 3
          [] u = "update" -> 4 [] u = "delete" -> 5]

\* create_usecases: one context_factory() call, the Context given to all five
create_usecases == [u \in UseCases |-> 1]

\* No request has been made yet.
\* The requests the event loop can hold at once, and a slot holding none.  A
\* request carries its operation and arguments, its position pc in the handler,
\* and the locals of the store method it is running: the candidate task, the
\* index i the scan found, the counter value tmp read by += 1, the store as
\* it was at the method's first read (start) and the method's result.
Slots == 1..MaxRequests

NoRequest ==
    [pc |-> "free", op |-> "none", task_id |-> 0, input |-> <<"", "">>, task |-> 0,
     i |-> 0, tmp |-> 0, start |-> [tasks |-> <<>>, next_id |-> 0],
     result |-> [ok |-> FALSE, id |-> 0, error |-> "none"]]

\* In the sequential specifications no request is in flight.
OneAtATime == UNCHANGED <<requests, running>>

NoResponse ==
    [endpoint |-> "none", task_id |-> 0, fields |-> {}, fault |-> "none",
     status |-> 0, detail |-> "", out |-> None]

Init ==
    /\ heap = <<>>
    /\ tasks = <<>>
    /\ next_id = 1
    /\ clock = 0
    /\ copy = <<>>
    /\ held = "none"
    /\ ret = Ret("init", 0, None, None, FALSE)
    /\ created_ids = <<>>
    /\ deleted = {}
    /\ latest = <<>>
    /\ store_log = <<>>
    /\ context = create_usecases
    /\ spare = [c \in Instances \ {1} |-> EmptyStore]
    /\ resp = NoResponse
    /\ workflow = [on |-> TRUE, n |-> 0]
    /\ requests = [r \in Slots |-> NoRequest]
    /\ running = 0

\* create that forgets self._next_id += 1
create_no_increment(h, ts, nid, task) ==
    LET now == datetime_now
        h1 == [h EXCEPT ![task].id = Some(nid)]
        h2 == [h1 EXCEPT ![task].created_at = Some(now)]
        h3 == [h2 EXCEPT ![task].updated_at = Some(now)]
    IN  [heap |-> h3, tasks |-> Append(ts, task), next_id |-> nid,
         result |-> Some(task)]

\* create that numbers by len(self._tasks) + 1
create_len_id(h, ts, nid, task) ==
    LET now == datetime_now
        h1 == [h EXCEPT ![task].id = Some(Len(ts) + 1)]
        h2 == [h1 EXCEPT ![task].created_at = Some(now)]
        h3 == [h2 EXCEPT ![task].updated_at = Some(now)]
    IN  [heap |-> h3, tasks |-> Append(ts, task), next_id |-> nid + 1,
         result |-> Some(task)]

\* create that keeps a copy of the candidate and returns the candidate
create_stores_copy(h, ts, nid, task) ==
    LET now == datetime_now
        h1 == [h EXCEPT ![task].id = Some(nid)]
        h2 == [h1 EXCEPT ![task].created_at = Some(now)]
        h3 == [h2 EXCEPT ![task].updated_at = Some(now)]
        h4 == Append(h3, h3[task])
    IN  [heap |-> h4, tasks |-> Append(ts, Len(h4)), next_id |-> nid + 1,
         result |-> Some(task)]

\* create that advances the counter twice
create_increment_twice(h, ts, nid, task) ==
    LET now == datetime_now
        h1 == [h EXCEPT ![task].id = Some(nid)]
        h2 == [h1 EXCEPT ![task].created_at = Some(now)]
        h3 == [h2 EXCEPT ![task].updated_at = Some(now)]
    IN  [heap |-> h3, tasks |-> Append(ts, task), next_id |-> nid + 2,
         result |-> Some(task)]

\* InMemoryTaskRepository.create on heap h, list ts, counter nid, candidate task
create(h, ts, nid, task) ==
    LET now == datetime_now
        h1 == [h EXCEPT ![task].id = Some(nid)]
        h2 == [h1 EXCEPT ![task].created_at = Some(now)]
        h3 == [h2 EXCEPT ![task].updated_at = Some(now)]
    IN  [heap |-> h3, tasks |-> Append(ts, task), next_id |-> nid + 1,
         result |-> Some(task)]

\* find_all that returns self._tasks itself
find_all_no_copy(ts) == [ref |-> "tasks", items |-> ts]

\* InMemoryTaskRepository.find_all: a new list object with the same references
find_all(ts) == [ref |-> "copy", items |-> ListCopy(ts)]

\* InMemoryTaskRepository.find_by_id
\* find_by_id that takes the id for a position: self._tasks[task_id - 1]
find_by_id_by_position(h, ts, task_id) ==
    IF task_id \in 1..Len(ts) THEN Some(ts[task_id]) ELSE None

find_by_id(h, ts, task_id) ==
    LET i == IndexOf(h, ts, task_id) IN
    IF i # 0 THEN Some(ts[i]) ELSE None

\* update that appends the new record and leaves the old one
update_append(h, ts, task_id, task) ==
    LET i == IndexOf(h, ts, task_id) IN
    IF i # 0
    THEN LET existing_task == ts[i]
             h1 == [h EXCEPT ![task].id = Some(task_id)]
             h2 == [h1 EXCEPT ![task].created_at = h1[existing_task].created_at]
             h3 == [h2 EXCEPT ![task].updated_at = Some(datetime_now)]
         IN  [heap |-> h3, tasks |-> Append(ts, task), result |-> Some(task)]
    ELSE [heap |-> h, tasks |-> ts, result |-> None]

\* update that stamps created_at anew
update_resets_created_at(h, ts, task_id, task) ==
    LET i == IndexOf(h, ts, task_id) IN
    IF i # 0
    THEN LET existing_task == ts[i]
             h1 == [h EXCEPT ![task].id = Some(task_id)]
             h2 == [h1 EXCEPT ![task].created_at = Some(datetime_now)]
             h3 == [h2 EXCEPT ![task].updated_at = Some(datetime_now)]
         IN  [heap |-> h3, tasks |-> [ts EXCEPT ![i] = task], result |-> Some(task)]
    ELSE [heap |-> h, tasks |-> ts, result |-> None]

\* update that writes the two timestamps the wrong way round
update_timestamps_swapped(h, ts, task_id, task) ==
    LET i == IndexOf(h, ts, task_id) IN
    IF i # 0
    THEN LET existing_task == ts[i]
             h1 == [h EXCEPT ![task].id = Some(task_id)]
             h2 == [h1 EXCEPT ![task].created_at = Some(datetime_now)]
             h3 == [h2 EXCEPT ![task].updated_at = h1[existing_task].created_at]
         IN  [heap |-> h3, tasks |-> [ts EXCEPT ![i] = task], result |-> Some(task)]
    ELSE [heap |-> h, tasks |-> ts, result |-> None]

\* update that forgets to refresh updated_at
update_keeps_updated_at(h, ts, task_id, task) ==
    LET i == IndexOf(h, ts, task_id) IN
    IF i # 0
    THEN LET existing_task == ts[i]
             h1 == [h EXCEPT ![task].id = Some(task_id)]
             h2 == [h1 EXCEPT ![task].created_at = h1[existing_task].created_at]
             h3 == [h2 EXCEPT ![task].updated_at = h1[existing_task].updated_at]
         IN  [heap |-> h3, tasks |-> [ts EXCEPT ![i] = task], result |-> Some(task)]
    ELSE [heap |-> h, tasks |-> ts, result |-> None]

\* update that removes the old record and appends the new one
update_move_to_end(h, ts, task_id, task) ==
    LET i == IndexOf(h, ts, task_id) IN
    IF i # 0
    THEN LET existing_task == ts[i]
             h1 == [h EXCEPT ![task].id = Some(task_id)]
             h2 == [h1 EXCEPT ![task].created_at = h1[existing_task].created_at]
             h3 == [h2 EXCEPT ![task].updated_at = Some(datetime_now)]
         IN  [heap |-> h3, tasks |-> Append(DelAt(ts, i), task), result |-> Some(task)]
    ELSE [heap |-> h, tasks |-> ts, result |-> None]

\* InMemoryTaskRepository.update on heap h, list ts, candidate task
\* update that writes the candidate's fields into the stored record
update_in_place(h, ts, task_id, task) ==
    LET i == IndexOf(h, ts, task_id) IN
    IF i # 0
    THEN LET existing_task == ts[i]
             h1 == [h EXCEPT ![existing_task].title = h[task].title]
             h2 == [h1 EXCEPT ![existing_task].category = h[task].category]
             h3 == [h2 EXCEPT ![existing_task].updated_at = Some(datetime_now)]
         IN  [heap |-> h3, tasks |-> ts, result |-> Some(existing_task)]
    ELSE [heap |-> h, tasks |-> ts, result |-> None]

\* update that stores the candidate under the given id when the id is missing
update_upsert(h, ts, task_id, task) ==
    LET i == IndexOf(h, ts, task_id)
        h1 == [h EXCEPT ![task].id = Some(task_id)]
        h2 == [h1 EXCEPT ![task].created_at =
                   IF i # 0 THEN h1[ts[i]].created_at ELSE Some(datetime_now)]
        h3 == [h2 EXCEPT ![task].updated_at = Some(datetime_now)]
    IN  [heap |-> h3,
         tasks |-> IF i # 0 THEN [ts EXCEPT ![i] = task] ELSE Append(ts, task),
         result |-> Some(task)]

update(h, ts, task_id, task) ==
    LET i == IndexOf(h, ts, task_id) IN
    IF i # 0
    THEN LET existing_task == ts[i]
             h1 == [h EXCEPT ![task].id = Some(task_id)]
             h2 == [h1 EXCEPT ![task].created_at = h1[existing_task].created_at]
             h3 == [h2 EXCEPT ![task].updated_at = Some(datetime_now)]
         IN  [heap |-> h3, tasks |-> [ts EXCEPT ![i] = task], result |-> Some(task)]
    ELSE [heap |-> h, tasks |-> ts, result |-> None]

\* delete that removes the last record instead of the one found
delete_pop_last(h, ts, task_id) ==
    LET i == IndexOf(h, ts, task_id) IN
    IF i # 0
    THEN [tasks |-> DelAt(ts, Len(ts)), result |-> TRUE]
    ELSE [tasks |-> ts, result |-> FALSE]

\* delete that removes the last record when the id is not found
delete_missing_pops(h, ts, task_id) ==
    LET i == IndexOf(h, ts, task_id) IN
    IF i # 0
    THEN [tasks |-> DelAt(ts, i), result |-> TRUE]
    ELSE [tasks |-> IF Len(ts) > 0 THEN DelAt(ts, Len(ts)) ELSE ts, result |-> FALSE]

\* delete that pops the head of the list: self._tasks.pop(0)
delete_pop_first(h, ts, task_id) ==
    LET i == IndexOf(h, ts, task_id) IN
    IF i # 0
    THEN [tasks |-> DelAt(ts, 1), result |-> TRUE]
    ELSE [tasks |-> ts, result |-> FALSE]

\* delete that reports True and leaves the record in the list
delete_keeps_record(h, ts, task_id) ==
    LET i == IndexOf(h, ts, task_id) IN
    IF i # 0
    THEN [tasks |-> ts, result |-> TRUE]
    ELSE [tasks |-> ts, result |-> FALSE]

\* InMemoryTaskRepository.delete
delete(h, ts, task_id) ==
    LET i == IndexOf(h, ts, task_id) IN
    IF i # 0
    THEN [tasks |-> DelAt(ts, i), result |-> TRUE]
    ELSE [tasks |-> ts, result |-> FALSE]

Range(s) == {s[i] : i \in 1..Len(s)}

\* What is left of a Task object once nothing refers to it.
Freed == [id |-> None, title |-> "", category |-> "",
          created_at |-> None, updated_at |-> None]

\* Reference counting: the objects of h that no list in roots refers to are gone.
Collect(h, roots) == [o \in 1..Len(h) |-> IF o \in roots THEN h[o] ELSE Freed]

\* The caller of find_all lets go of the list before the next call ...
Release == copy' = <<>> /\ held' = "none"
\* ... or keeps it.
Keep == UNCHANGED <<copy, held>>

\* self.context.repositories.task of a use case built with Context c: the store
\* of the first Context is (tasks, next_id), the others are in spare.
StoreOf(c) == IF c = 1 THEN [tasks |-> tasks, next_id |-> next_id] ELSE spare[c]

\* The store of Context c now has list ts and counter nid.
PutStore(c, ts, nid) ==
    /\ tasks' = IF c = 1 THEN ts ELSE tasks
    /\ next_id' = IF c = 1 THEN nid ELSE next_id
    /\ spare' = IF c = 1 THEN spare
                ELSE [spare EXCEPT ![c] = [tasks |-> ts, next_id |-> nid]]

\* The Task objects some list still refers to after the step.
Live ==
    Range(tasks') \cup Range(copy')
        \cup UNION {Range(spare'[c].tasks) : c \in DOMAIN spare'}

\* One store call as the use case made it: the method, the id and the candidate
\* record it passed, and what the store returned.
StoreCall(op, task_id, candidate, result) ==
    [op |-> op, task_id |-> task_id, candidate |-> candidate, result |-> result]

\* task = Task(title=title, category=category) with the arguments crossed
NewCandidate_crossed(title, category) == Task(category, title)

\* task = Task(title=title, category=category) in the create and update use cases
NewCandidate(title, category) == Task(title, category)

\* f with key k bound to v.
Bind(f, k, v) == [x \in DOMAIN f \cup {k} |-> IF x = k THEN v ELSE f[x]]

\* f without key k.
Unbind(f, k) == [x \in DOMAIN f \ {k} |-> f[x]]

\* CreateTaskUseCase.execute: builds a new Task and hands it to the store
CreateTaskUseCase(title, category) ==
    /\ Len(heap) < MaxTasks
    /\ LET st == StoreOf(context["create"])
           h == Append(heap, NewCandidate(title, category))
           r == create(h, st.tasks, st.next_id, Len(h))
       IN  /\ PutStore(context["create"], r.tasks, r.next_id)
           /\ heap' = Collect(r.heap, Live)
           /\ ret' = Ret("create", 0, <<title, category>>, r.result, TRUE)
           /\ created_ids' = Append(created_ids, r.heap[r.result[1]].id[1])
           /\ latest' = Bind(latest, r.heap[r.result[1]].id[1], <<title, category>>)
           /\ store_log' = <<StoreCall("create", 0, Some(h[Len(h)]), r.result)>>
           /\ workflow' = Advance(workflow, "create", 0, <<title, category>>)
    /\ UNCHANGED <<clock, deleted, context>>

\* GetAllTasksUseCase.execute: the caller now holds the returned list object
GetAllTasksUseCase ==
    /\ LET st == StoreOf(context["get_all"])
           r == find_all(st.tasks)
       IN  /\ held' = IF r.ref = "tasks" /\ context["get_all"] # 1 THEN "copy" ELSE r.ref
           /\ copy' = IF r.ref = "copy" \/ context["get_all"] # 1 THEN r.items ELSE <<>>
           /\ store_log' = <<StoreCall("find_all", 0, None, Some(r.items))>>
           /\ workflow' = Advance(workflow, "find_all", 0, None)
    /\ UNCHANGED <<tasks, next_id, spare>>
    /\ heap' = Collect(heap, Live)
    /\ ret' = Ret("find_all", 0, None, None, TRUE)
    /\ UNCHANGED <<clock, created_ids, deleted, latest, context>>

\* A get-by-id that takes the record it finds out of the list
GetTaskByIdUseCase_takes(task_id) ==
    /\ LET st == StoreOf(context["get_by_id"])
           r == find_by_id(heap, st.tasks, task_id)
           d == delete(heap, st.tasks, task_id)
       IN  /\ PutStore(context["get_by_id"], d.tasks, st.next_id)
           /\ ret' = Ret("find_by_id", task_id, None, r, r # None)
           /\ store_log' = <<StoreCall("find_by_id", task_id, None, r)>>
           /\ workflow' = Advance(workflow, "find_by_id", task_id, None)
    /\ heap' = Collect(heap, Live \cup Range(ret'.obj))
    /\ UNCHANGED <<clock, created_ids, deleted, latest, context>>

\* GetTaskByIdUseCase.execute
GetTaskByIdUseCase(task_id) ==
    /\ LET st == StoreOf(context["get_by_id"])
           r == find_by_id(heap, st.tasks, task_id)
       IN  /\ ret' = Ret("find_by_id", task_id, None, r, r # None)
           /\ store_log' = <<StoreCall("find_by_id", task_id, None, r)>>
           /\ workflow' = Advance(workflow, "find_by_id", task_id, None)
    /\ UNCHANGED <<tasks, next_id, spare>>
    /\ heap' = Collect(heap, Live)
    /\ UNCHANGED <<clock, created_ids, deleted, latest, context>>

\* UpdateTaskUseCase.execute: builds a new Task and hands it to the store.
\* When the store returns None and left the heap alone, the new Task was the
\* use case's local only and is gone with it.
UpdateTaskUseCase(task_id, title, category) ==
    /\ Len(heap) < MaxTasks
    /\ LET st == StoreOf(context["update"])
           h == Append(heap, NewCandidate(title, category))
           r == update(h, st.tasks, task_id, Len(h))
       IN  /\ PutStore(context["update"], r.tasks, st.next_id)
           /\ heap' = IF r.result = None /\ r.heap = h
                      THEN Collect(heap, Live)
                      ELSE Collect(r.heap, Live)
           /\ ret' = Ret("update", task_id, <<title, category>>, r.result, r.result # None)
           /\ latest' = IF r.result = None THEN latest
                        ELSE Bind(latest, task_id, <<title, category>>)
           /\ store_log' = <<StoreCall("update", task_id, Some(h[Len(h)]), r.result)>>
           /\ workflow' = Advance(workflow, "update", task_id, <<title, category>>)
    /\ UNCHANGED <<clock, created_ids, deleted, context>>

\* DeleteTaskUseCase.execute
DeleteTaskUseCase(task_id) ==
    /\ LET st == StoreOf(context["delete"])
           r == delete(heap, st.tasks, task_id)
       IN  /\ PutStore(context["delete"], r.tasks, st.next_id)
           /\ heap' = Collect(heap, Live)
           /\ deleted' = IF r.result THEN deleted \cup {task_id} ELSE deleted
           /\ ret' = Ret("delete", task_id, None, None, r.result)
           /\ latest' = IF r.result THEN Unbind(latest, task_id) ELSE latest
           /\ store_log' = <<StoreCall("delete", task_id, None, Some(r.result))>>
           /\ workflow' = Advance(workflow, "delete", task_id, None)
    /\ UNCHANGED <<clock, created_ids, context>>

\* The list object the caller of find_all holds.
HeldList == IF held = "tasks" THEN tasks ELSE copy

\* The caller writes l to the list object it holds.
SetHeld(l) ==
    /\ tasks' = IF held = "tasks" THEN l ELSE tasks
    /\ copy' = IF held = "copy" THEN l ELSE copy

\* tasks.append(Task(title="External Task", category="External")) on the result
CallerAppend ==
    /\ held # "none"
    /\ Len(heap) < MaxTasks
    /\ SetHeld(Append(HeldList, Len(heap) + 1))
    /\ heap' = Collect(Append(heap, Task(ExternalTitle, ExternalCategory)),
                       Range(tasks') \cup Range(copy'))
    /\ ret' = Ret("caller_append", 0, None, None, TRUE)
    /\ UNCHANGED <<next_id, clock, held, created_ids, deleted>>
    /\ store_log' = <<>>
    /\ workflow' = Advance(workflow, "caller", 0, None)
    /\ UNCHANGED <<latest, context, spare>>

\* del tasks[i] on the result
CallerRemove(i) ==
    /\ held # "none"
    /\ i \in 1..Len(HeldList)
    /\ SetHeld(DelAt(HeldList, i))
    /\ heap' = Collect(heap, Range(tasks') \cup Range(copy'))
    /\ ret' = Ret("caller_remove", 0, None, None, TRUE)
    /\ UNCHANGED <<next_id, clock, held, created_ids, deleted>>
    /\ store_log' = <<>>
    /\ workflow' = Advance(workflow, "caller", 0, None)
    /\ UNCHANGED <<latest, context, spare>>

\* tasks.reverse() on the result
CallerReverse ==
    /\ held # "none"
    /\ Len(HeldList) > 1
    /\ SetHeld([j \in 1..Len(HeldList) |-> HeldList[Len(HeldList) + 1 - j]])
    /\ ret' = Ret("caller_reverse", 0, None, None, TRUE)
    /\ UNCHANGED <<heap, next_id, clock, held, created_ids, deleted>>
    /\ store_log' = <<>>
    /\ workflow' = Advance(workflow, "caller", 0, None)
    /\ UNCHANGED <<latest, context, spare>>

\* Time passes between two calls.
Tick ==
    /\ clock < MaxClock
    /\ clock' = clock + 1
    /\ UNCHANGED <<heap, tasks, next_id, copy, held, ret, created_ids, deleted>>
    /\ UNCHANGED <<latest, store_log, context, spare, workflow>>

\* The use cases are called directly: no HTTP request is answered.
Direct == UNCHANGED <<resp, requests, running>>

\* The store driven through the use cases; a list find_all returned is let go
\* of before the next call.
Next ==
    \/ Direct /\ Release /\ \E in \in Inputs : CreateTaskUseCase(in[1], in[2])
    \/ Direct /\ GetAllTasksUseCase
    \/ Direct /\ Release /\ \E task_id \in TaskIds : GetTaskByIdUseCase(task_id)
    \/ Direct /\ Release /\ \E task_id \in TaskIds, in \in Inputs :
                                UpdateTaskUseCase(task_id, in[1], in[2])
    \/ Direct /\ Release /\ \E task_id \in TaskIds : DeleteTaskUseCase(task_id)
    \/ Direct /\ Tick

Spec == Init /\ [][Next]_vars

\* The same, with a caller that keeps the list find_all returned and edits it.
NextCaller ==
    \/ Direct /\ Keep /\ \E in \in Inputs : CreateTaskUseCase(in[1], in[2])
    \/ Direct /\ GetAllTasksUseCase
    \/ Direct /\ Keep /\ \E task_id \in TaskIds : GetTaskByIdUseCase(task_id)
    \/ Direct /\ Keep /\ \E task_id \in TaskIds, in \in Inputs :
                             UpdateTaskUseCase(task_id, in[1], in[2])
    \/ Direct /\ Keep /\ \E task_id \in TaskIds : DeleteTaskUseCase(task_id)
    \/ Direct /\ CallerAppend
    \/ Direct /\ \E i \in 1..MaxTasks : CallerRemove(i)
    \/ Direct /\ CallerReverse

SpecCaller == Init /\ [][NextCaller]_vars

\* The store driven with the inputs of test_complex_workflow; the clock stands
\* still, as timestamps play no part in what that test asserts.
NextWorkflow ==
    \/ Direct /\ Release /\ \E in \in WorkflowInputs : CreateTaskUseCase(in[1], in[2])
    \/ Direct /\ GetAllTasksUseCase
    \/ Direct /\ Release /\ \E task_id \in TaskIds : GetTaskByIdUseCase(task_id)
    \/ Direct /\ Release /\ \E task_id \in TaskIds, in \in WorkflowInputs :
                                UpdateTaskUseCase(task_id, in[1], in[2])
    \/ Direct /\ Release /\ \E task_id \in TaskIds : DeleteTaskUseCase(task_id)

SpecWorkflow == Init /\ [][NextWorkflow]_vars

\* repository.create(task) with a Task object the store already holds: the
\* caller got it from an earlier create, update, find_by_id or find_all.
CreateStored(task) ==
    /\ task \in Range(tasks)
    /\ next_id <= MaxAliasTasks + 1
    /\ LET r == create(heap, tasks, next_id, task)
       IN  /\ tasks' = r.tasks
           /\ next_id' = r.next_id
           /\ UNCHANGED spare
           /\ heap' = Collect(r.heap, Live)
           /\ ret' = Ret("create", 0, <<heap[task].title, heap[task].category>>,
                         r.result, TRUE)
           /\ created_ids' = Append(created_ids, r.heap[r.result[1]].id[1])
           /\ latest' = Bind(latest, r.heap[r.result[1]].id[1],
                             <<heap[task].title, heap[task].category>>)
           /\ store_log' = <<StoreCall("create", 0, Some(heap[task]), r.result)>>
           /\ workflow' = Advance(workflow, "create_stored", 0, None)
    /\ UNCHANGED <<clock, deleted, context>>

\* repository.update(task_id, task) with a Task object the store already holds
UpdateStored(task_id, task) ==
    /\ task \in Range(tasks)
    /\ LET r == update(heap, tasks, task_id, task)
       IN  /\ tasks' = r.tasks
           /\ UNCHANGED <<next_id, spare>>
           /\ heap' = Collect(r.heap, Live)
           /\ ret' = Ret("update", task_id, <<heap[task].title, heap[task].category>>,
                         r.result, r.result # None)
           /\ latest' = IF r.result = None THEN latest
                        ELSE Bind(latest, task_id,
                                  <<heap[task].title, heap[task].category>>)
           /\ store_log' = <<StoreCall("update", task_id, Some(heap[task]), r.result)>>
           /\ workflow' = Advance(workflow, "update_stored", task_id, None)
    /\ UNCHANGED <<clock, created_ids, deleted, context>>

\* The store driven by a caller that passes newly built Task objects or Task
\* objects it got back from the store.  The clock stands still.
NextAlias ==
    \/ /\ Len(heap) < MaxAliasTasks
       /\ Direct /\ Release /\ \E in \in Inputs : CreateTaskUseCase(in[1], in[2])
    \/ Direct /\ GetAllTasksUseCase
    \/ Direct /\ Release /\ \E task_id \in TaskIds : GetTaskByIdUseCase(task_id)
    \/ /\ Len(heap) < MaxAliasTasks
       /\ Direct /\ Release /\ \E task_id \in TaskIds, in \in Inputs :
                                   UpdateTaskUseCase(task_id, in[1], in[2])
    \/ Direct /\ Release /\ \E task_id \in TaskIds : DeleteTaskUseCase(task_id)
    \/ Direct /\ Release /\ \E task \in 1..MaxAliasTasks : CreateStored(task)
    \/ Direct /\ Release /\ \E task_id \in TaskIds, task \in 1..MaxAliasTasks :
                                UpdateStored(task_id, task)

SpecAlias == Init /\ [][NextAlias]_vars

\* The Task objects the caller has at hand: the one the latest call returned
\* and those in the list it holds.
HeldTasks == Range(ret.obj) \cup (IF held = "none" THEN {} ELSE Range(HeldList))

\* task.title = "External Task" on a Task object the caller has at hand
CallerSetTitle(task) ==
    /\ task \in HeldTasks
    /\ heap[task].title # ExternalTitle
    /\ heap' = [heap EXCEPT ![task].title = ExternalTitle]
    /\ ret' = Ret("caller_set", 0, <<"title">>, Some(task), TRUE)
    /\ store_log' = <<>>
    /\ workflow' = Advance(workflow, "caller", 0, None)
    /\ UNCHANGED <<tasks, next_id, clock, copy, held, created_ids, deleted>>
    /\ UNCHANGED <<latest, context, spare>>

\* task.id = 0 on a Task object the caller has at hand
CallerSetId(task) ==
    /\ task \in HeldTasks
    /\ heap[task].id # Some(0)
    /\ heap' = [heap EXCEPT ![task].id = Some(0)]
    /\ ret' = Ret("caller_set", 0, <<"id">>, Some(task), TRUE)
    /\ store_log' = <<>>
    /\ workflow' = Advance(workflow, "caller", 0, None)
    /\ UNCHANGED <<tasks, next_id, clock, copy, held, created_ids, deleted>>
    /\ UNCHANGED <<latest, context, spare>>

\* The store driven through the use cases by a caller that writes to fields of
\* the Task objects it gets back.  The clock stands still.
NextShared ==
    \/ /\ Len(heap) < MaxSharedTasks
       /\ Direct /\ Release /\ \E in \in Inputs : CreateTaskUseCase(in[1], in[2])
    \/ Direct /\ GetAllTasksUseCase
    \/ Direct /\ Release /\ \E task_id \in TaskIds : GetTaskByIdUseCase(task_id)
    \/ /\ Len(heap) < MaxSharedTasks
       /\ Direct /\ Release /\ \E task_id \in TaskIds, in \in Inputs :
                                   UpdateTaskUseCase(task_id, in[1], in[2])
    \/ Direct /\ Release /\ \E task_id \in TaskIds : DeleteTaskUseCase(task_id)
    \/ Direct /\ \E task \in 1..MaxSharedTasks : CallerSetTitle(task)
    \/ Direct /\ \E task \in 1..MaxSharedTasks : CallerSetId(task)

SpecShared == Init /\ [][NextShared]_vars

(***************************************************************************)
(* The web layer: FastAPI request validation, the controller's handlers    *)
(* and the TaskService methods they await.  No handler has a suspension    *)
(* point of its own, so a request is one step.                             *)
(***************************************************************************)

\* JSON bodies a client may send: the two fields, or one of them only.
Bodies ==
    {[title |-> in[1], category |-> in[2]] : in \in Inputs}
        \cup {[title |-> "Task 1"], [category |-> "Work"]}

\* The ids a client may put in the path: every id issued so far and the next,
\* not yet issued one.
PathIds == 1..next_id

\* The logger calls on a handler's way, in the order they are made: the
\* controller's first, the service's first, (the use case), the service's
\* second, the controller's second.  At most one of them raises.
Faults ==
    {"none", "controller_first", "service_first", "service_second",
     "controller_second"}

\* The use case is reached unless a logger call before it raised.
Executes(fault) == fault \notin {"controller_first", "service_first"}

\* What a logger call raises when it fails.
LoggerError == [type |-> "Exception", status_code |-> 0, detail |-> "Logger error"]

\* fastapi.HTTPException(status_code, detail)
HTTPException(status_code, detail) ==
    [type |-> "HTTPException", status_code |-> status_code, detail |-> detail]

\* A call that returned v / that raised e.
Returned(v) == [raised |-> FALSE, value |-> v, exc |-> None]
Raised(e) == [raised |-> TRUE, value |-> None, exc |-> e]

\* TaskInput with a default for category: category: str = ""
TaskInput_category_default(body) ==
    IF "title" \in DOMAIN body
    THEN Some([title |-> body.title,
               category |-> IF "category" \in DOMAIN body THEN body.category ELSE ""])
    ELSE None

\* TaskInput: both fields are required; None stands for the validation error.
TaskInput(body) ==
    IF {"title", "category"} \subseteq DOMAIN body
    THEN Some([title |-> body.title, category |-> body.category])
    ELSE None

\* datetime.isoformat()
isoformat(t) == ToString(t)

\* TaskOutput.from_task
from_task(h, task) ==
    [id |-> h[task].id[1],
     title |-> h[task].title,
     category |-> h[task].category,
     created_at |-> IF h[task].created_at # None
                    THEN Some(isoformat(h[task].created_at[1])) ELSE None,
     updated_at |-> IF h[task].updated_at # None
                    THEN Some(isoformat(h[task].updated_at[1])) ELSE None]

\* DeleteTaskResponse(message=f"Task {task_id} ...")
DeleteTaskResponse(task_id, text) == [message |-> <<"Task", task_id, text>>]

\* TaskService.create_task; task is what the use case returned.  A logger call
\* that raises is caught by the method's except, logged and raised again.
TaskService_create_task(fault, h, task) ==
    IF fault \in {"service_first", "service_second"}
    THEN Raised(LoggerError)
    ELSE Returned(Some(from_task(h, task[1])))

\* TaskService.get_all_tasks; ts is the list the use case returned.
TaskService_get_all_tasks(fault, h, ts) ==
    IF fault \in {"service_first", "service_second"}
    THEN Raised(LoggerError)
    ELSE Returned(Some([i \in 1..Len(ts) |-> from_task(h, ts[i])]))

\* TaskService.get_task_by_id; task is what the use case returned.
TaskService_get_task_by_id(fault, h, task) ==
    IF fault \in {"service_first", "service_second"}
    THEN Raised(LoggerError)
    ELSE IF task # None
         THEN Returned(Some(from_task(h, task[1])))
         ELSE Returned(None)

\* TaskService.update_task; task is what the use case returned.
TaskService_update_task(fault, h, task) ==
    IF fault \in {"service_first", "service_second"}
    THEN Raised(LoggerError)
    ELSE IF task # None
         THEN Returned(Some(from_task(h, task[1])))
         ELSE Returned(None)

\* TaskService.delete_task; success is what the use case returned.
TaskService_delete_task(fault, task_id, success) ==
    IF fault \in {"service_first", "service_second"}
    THEN Raised(LoggerError)
    ELSE IF success
         THEN Returned(Some(DeleteTaskResponse(task_id, "eliminada correctamente")))
         ELSE Returned(Some(DeleteTaskResponse(task_id, "no encontrada")))

\* except Exception that answers with the exception's own message
except_Exception_leaks(outcome) ==
    IF outcome.raised
    THEN Raised(HTTPException(500, outcome.exc.detail))
    ELSE outcome

\* The handlers' "except Exception as e": log it, raise HTTPException(500).
\* HTTPException is an Exception, so this clause alone catches it too.
except_Exception(outcome) ==
    IF outcome.raised
    THEN Raised(HTTPException(500, "Internal server error"))
    ELSE outcome

\* except clauses of get_task_by_id and update_task without the first one
except_without_reraise(outcome) == except_Exception(outcome)

\* "except HTTPException: raise" followed by "except Exception as e"
except_HTTPException_reraise(outcome) ==
    IF outcome.raised /\ outcome.exc.type = "HTTPException"
    THEN outcome
    ELSE except_Exception(outcome)

\* Controller get_all_tasks; svc is the outcome of the awaited service call.
get_all_tasks(fault, svc) ==
    except_Exception(
        IF fault = "controller_first" THEN Raised(LoggerError)
        ELSE IF svc.raised THEN svc
        ELSE IF fault = "controller_second" THEN Raised(LoggerError)
        ELSE svc)

\* Controller create_task
create_task(fault, svc) ==
    except_Exception(
        IF fault = "controller_first" THEN Raised(LoggerError)
        ELSE IF svc.raised THEN svc
        ELSE IF fault = "controller_second" THEN Raised(LoggerError)
        ELSE svc)

\* Controller get_task_by_id: "if not task" raises the 404 inside the try
get_task_by_id(fault, svc) ==
    except_HTTPException_reraise(
        IF fault = "controller_first" THEN Raised(LoggerError)
        ELSE IF svc.raised THEN svc
        ELSE IF fault = "controller_second" THEN Raised(LoggerError)
        ELSE IF svc.value = None THEN Raised(HTTPException(404, "Task not found"))
        ELSE svc)

\* Controller update_task: "if not task" raises the 404 inside the try
update_task(fault, svc) ==
    except_HTTPException_reraise(
        IF fault = "controller_first" THEN Raised(LoggerError)
        ELSE IF svc.raised THEN svc
        ELSE IF fault = "controller_second" THEN Raised(LoggerError)
        ELSE IF svc.value = None THEN Raised(HTTPException(404, "Task not found"))
        ELSE svc)

\* delete_task that answers 404 when the service reports the id as not found
delete_task_404(fault, svc) ==
    except_HTTPException_reraise(
        IF fault = "controller_first" THEN Raised(LoggerError)
        ELSE IF svc.raised THEN svc
        ELSE IF fault = "controller_second" THEN Raised(LoggerError)
        ELSE IF svc.value[1].message[3] = "no encontrada"
             THEN Raised(HTTPException(404, "Task not found"))
        ELSE svc)

\* Controller delete_task
delete_task(fault, svc) ==
    except_Exception(
        IF fault = "controller_first" THEN Raised(LoggerError)
        ELSE IF svc.raised THEN svc
        ELSE IF fault = "controller_second" THEN Raised(LoggerError)
        ELSE svc)

\* The request as the response records it: the route, the id in the path, the
\* names of the fields of the body, the logger call that raises.
Request(endpoint, task_id, fields, fault) ==
    [endpoint |-> endpoint, task_id |-> task_id, fields |-> fields, fault |-> fault]

\* FastAPI: the handler's outcome as a response; status_code is the route's.
Respond(req, status_code, outcome) ==
    [endpoint |-> req.endpoint, task_id |-> req.task_id, fields |-> req.fields,
     fault |-> req.fault,
     status |-> IF outcome.raised THEN outcome.exc.status_code ELSE status_code,
     detail |-> IF outcome.raised THEN outcome.exc.detail ELSE "",
     out |-> IF outcome.raised THEN None ELSE outcome.value]

\* FastAPI: a body that does not validate as TaskInput is answered 422 and the
\* handler is not called.
RequestValidationError(req) ==
    [endpoint |-> req.endpoint, task_id |-> req.task_id, fields |-> req.fields,
     fault |-> req.fault, status |-> 422, detail |-> "", out |-> None]

\* The request ends before a use case is executed: no store call is made.
Idle ==
    /\ UNCHANGED <<tasks, next_id, spare>>
    /\ heap' = Collect(heap, Live)
    /\ store_log' = <<>>
    /\ UNCHANGED <<clock, ret, created_ids, deleted, latest, context, workflow>>

\* POST /tasks/
POST_tasks(body, fault) ==
    LET req == Request("POST /tasks/", 0, DOMAIN body, fault)
        task_input == TaskInput(body)
    IN  /\ Len(heap) < MaxHttpTasks
        /\ Release
        /\ IF task_input = None
           THEN /\ fault = "none"
                /\ Idle
                /\ resp' = RequestValidationError(req)
           ELSE IF Executes(fault)
           THEN /\ CreateTaskUseCase(task_input[1].title, task_input[1].category)
                /\ resp' = Respond(req, 201,
                               create_task(fault,
                                   TaskService_create_task(fault, heap', ret'.obj)))
           ELSE /\ Idle
                /\ resp' = Respond(req, 201,
                               create_task(fault,
                                   TaskService_create_task(fault, heap, None)))

\* GET /tasks/
GET_tasks(fault) ==
    LET req == Request("GET /tasks/", 0, {}, fault)
    IN  IF Executes(fault)
        THEN /\ GetAllTasksUseCase
             /\ resp' = Respond(req, 200,
                            get_all_tasks(fault,
                                TaskService_get_all_tasks(fault, heap', copy')))
        ELSE /\ Release
             /\ Idle
             /\ resp' = Respond(req, 200,
                            get_all_tasks(fault,
                                TaskService_get_all_tasks(fault, heap, <<>>)))

\* GET /tasks/{task_id}
GET_task(task_id, fault) ==
    LET req == Request("GET /tasks/{task_id}", task_id, {}, fault)
    IN  /\ Release
        /\ IF Executes(fault)
           THEN /\ GetTaskByIdUseCase(task_id)
                /\ resp' = Respond(req, 200,
                               get_task_by_id(fault,
                                   TaskService_get_task_by_id(fault, heap', ret'.obj)))
           ELSE /\ Idle
                /\ resp' = Respond(req, 200,
                               get_task_by_id(fault,
                                   TaskService_get_task_by_id(fault, heap, None)))

\* PUT /tasks/{task_id}
PUT_task(task_id, body, fault) ==
    LET req == Request("PUT /tasks/{task_id}", task_id, DOMAIN body, fault)
        task_input == TaskInput(body)
    IN  /\ Len(heap) < MaxHttpTasks
        /\ Release
        /\ IF task_input = None
           THEN /\ fault = "none"
                /\ Idle
                /\ resp' = RequestValidationError(req)
           ELSE IF Executes(fault)
           THEN /\ UpdateTaskUseCase(task_id, task_input[1].title, task_input[1].category)
                /\ resp' = Respond(req, 200,
                               update_task(fault,
                                   TaskService_update_task(fault, heap', ret'.obj)))
           ELSE /\ Idle
                /\ resp' = Respond(req, 200,
                               update_task(fault,
                                   TaskService_update_task(fault, heap, None)))

\* DELETE /tasks/{task_id}
DELETE_task(task_id, fault) ==
    LET req == Request("DELETE /tasks/{task_id}", task_id, {}, fault)
    IN  /\ Release
        /\ IF Executes(fault)
           THEN /\ DeleteTaskUseCase(task_id)
                /\ resp' = Respond(req, 200,
                               delete_task(fault,
                                   TaskService_delete_task(fault, task_id, ret'.ok)))
           ELSE /\ Idle
                /\ resp' = Respond(req, 200,
                               delete_task(fault,
                                   TaskService_delete_task(fault, task_id, FALSE)))

\* The wired application answering requests, one at a time.  The clock stands
\* still: no status, message or stored field but the timestamps depends on it.
NextHttp ==
    \/ OneAtATime /\ \E body \in Bodies, fault \in Faults : POST_tasks(body, fault)
    \/ OneAtATime /\ \E fault \in Faults : GET_tasks(fault)
    \/ OneAtATime /\ \E task_id \in PathIds, fault \in Faults : GET_task(task_id, fault)
    \/ OneAtATime /\ \E task_id \in PathIds, body \in Bodies, fault \in Faults :
           PUT_task(task_id, body, fault)
    \/ OneAtATime /\ \E task_id \in PathIds, fault \in Faults : DELETE_task(task_id, fault)

SpecHttp == Init /\ [][NextHttp]_vars

(***************************************************************************)
(* Requests in flight at once.  uvicorn runs the application on one event  *)
(* loop in one thread; every handler and every TaskService method is an    *)
(* async def, and a coroutine keeps the thread until it awaits something   *)
(* that is not ready.  The store methods are split here into the reads and *)
(* writes of their statements, so that what the loop may interleave is     *)
(* decided by Suspends alone.                                              *)
(***************************************************************************)

\* The positions at which a request's coroutine hands the thread back, were the
\* handlers plain functions run by a pool of threads: every one.
Suspends_in_thread_pool(pc) == TRUE

\* The positions at which a request's coroutine hands the thread back to the
\* event loop.  Between the controller's await of the service and the return of
\* the handler nothing awaits a pending future: the service awaits nothing, and
\* the use case and the store are plain calls.
Suspends(pc) == pc \in {"ready", "done"}

\* The operations the clients submit.
Submitted ==
    {<<"create", 0, in>> : in \in Inputs}
        \cup {<<"update", task_id, in>> : task_id \in Slots, in \in Inputs}
        \cup {<<"delete", task_id, <<"", "">> >> : task_id \in Slots}

\* The candidates of the requests still running.
Candidates(rs) == {rs[q].task : q \in {p \in Slots : rs[p].pc \notin {"free", "done"}}} \ {0}

\* Request r may take its next step: the thread is free or r's coroutine has it.
CanRun(r) == running \in {0, r}

\* Request r moves to position pc with its locals changed to req.
Goto(r, req, pc) ==
    /\ requests' = [requests EXCEPT ![r] = [req EXCEPT !.pc = pc]]
    /\ running' = IF Suspends(pc) THEN 0 ELSE r

NoResult == [ok |-> FALSE, id |-> 0, error |-> "none"]

\* The store method of request r returns (or raises) and the handler answers.
Answer(r, req, h, result) ==
    /\ Goto(r, [req EXCEPT !.result = result], "done")
    /\ heap' = Collect(h, Range(tasks') \cup Candidates(requests'))
    /\ ret' = Ret(requests[r].op, result.id, requests[r].input, None, result.ok)
    /\ store_log' = <<>>
    /\ workflow' = Advance(workflow, "request", 0, None)
    /\ UNCHANGED <<clock, copy, held, context, spare, resp>>

\* A step inside a store method: no call has returned yet.
Inside ==
    UNCHANGED <<clock, copy, held, context, spare, resp, ret, store_log, workflow,
                created_ids, deleted, latest>>

\* A client sends a request; the slots are taken in order of arrival.
Submit(r, op, task_id, input) ==
    /\ requests[r].pc = "free"
    /\ \A q \in Slots : q < r => requests[q].pc # "free"
    /\ requests' = [requests EXCEPT ![r] =
           [NoRequest EXCEPT !.pc = "ready", !.op = op, !.task_id = task_id,
                             !.input = input, !.result = NoResult,
                             !.start = [tasks |-> <<>>, next_id |-> 0]]]
    /\ Inside
    /\ UNCHANGED <<heap, tasks, next_id, running>>

\* The loop resumes the handler of r: controller, service and use case run up
\* to the store call; the create and update use cases build their candidate.
Begin(r) ==
    /\ requests[r].pc = "ready"
    /\ CanRun(r)
    /\ LET req == requests[r]
       IN  IF req.op = "delete"
           THEN /\ Goto(r, req, "delete_scan")
                /\ UNCHANGED heap
           ELSE /\ heap' = Append(heap, NewCandidate(req.input[1], req.input[2]))
                /\ Goto(r, [req EXCEPT !.task = Len(heap) + 1],
                        IF req.op = "create" THEN "create_id" ELSE "update_scan")
    /\ Inside
    /\ UNCHANGED <<tasks, next_id>>

\* create: task.id = self._next_id; task.created_at = task.updated_at = now
create_id(r) ==
    /\ requests[r].pc = "create_id"
    /\ CanRun(r)
    /\ LET req == requests[r]
           now == datetime_now
       IN  /\ heap' = [heap EXCEPT ![req.task].id = Some(next_id),
                                   ![req.task].created_at = Some(now),
                                   ![req.task].updated_at = Some(now)]
           /\ Goto(r, [req EXCEPT !.start = [tasks |-> tasks, next_id |-> next_id]],
                   "create_append")
    /\ Inside
    /\ UNCHANGED <<tasks, next_id>>

\* create: self._tasks.append(task)
create_append(r) ==
    /\ requests[r].pc = "create_append"
    /\ CanRun(r)
    /\ tasks' = Append(tasks, requests[r].task)
    /\ Goto(r, requests[r], "create_load")
    /\ Inside
    /\ UNCHANGED <<heap, next_id>>

\* create: self._next_id += 1, the read
create_load(r) ==
    /\ requests[r].pc = "create_load"
    /\ CanRun(r)
    /\ Goto(r, [requests[r] EXCEPT !.tmp = next_id], "create_store")
    /\ Inside
    /\ UNCHANGED <<heap, tasks, next_id>>

\* create: self._next_id += 1, the write; return task
create_store(r) ==
    /\ requests[r].pc = "create_store"
    /\ CanRun(r)
    /\ LET req == requests[r]
           id == heap[req.task].id[1]
       IN  /\ next_id' = req.tmp + 1
           /\ UNCHANGED tasks
           /\ Answer(r, req, heap, [ok |-> TRUE, id |-> id, error |-> "none"])
           /\ created_ids' = Append(created_ids, id)
           /\ latest' = Bind(latest, id, req.input)
           /\ UNCHANGED deleted

\* update: the for loop over enumerate(self._tasks); return None when it ends
update_scan(r) ==
    /\ requests[r].pc = "update_scan"
    /\ CanRun(r)
    /\ LET req == requests[r]
           i == IndexOf(heap, tasks, req.task_id)
           seen == [req EXCEPT !.i = i, !.start = [tasks |-> tasks, next_id |-> next_id]]
       IN  IF i = 0
           THEN /\ UNCHANGED <<tasks, next_id, created_ids, deleted, latest>>
                /\ Answer(r, seen, heap, [ok |-> FALSE, id |-> req.task_id, error |-> "none"])
           ELSE /\ Goto(r, seen, "update_replace")
                /\ Inside
                /\ UNCHANGED <<heap, tasks, next_id>>

\* update: task.id = task_id; task.created_at = existing_task.created_at;
\* task.updated_at = now; self._tasks[i] = task; return task
update_replace(r) ==
    /\ requests[r].pc = "update_replace"
    /\ CanRun(r)
    /\ LET req == requests[r]
           now == datetime_now
           existing_task == req.start.tasks[req.i]
           h == [heap EXCEPT ![req.task].id = Some(req.task_id),
                             ![req.task].created_at = heap[existing_task].created_at,
                             ![req.task].updated_at = Some(now)]
       IN  IF req.i <= Len(tasks)
           THEN /\ tasks' = [tasks EXCEPT ![req.i] = req.task]
                /\ Answer(r, req, h, [ok |-> TRUE, id |-> req.task_id, error |-> "none"])
                /\ latest' = Bind(latest, req.task_id, req.input)
                /\ UNCHANGED <<next_id, created_ids, deleted>>
           ELSE /\ UNCHANGED <<tasks, next_id, created_ids, deleted, latest>>
                /\ Answer(r, req, h, [ok |-> FALSE, id |-> req.task_id, error |-> "IndexError"])

\* delete: the for loop over enumerate(self._tasks); return False when it ends
delete_scan(r) ==
    /\ requests[r].pc = "delete_scan"
    /\ CanRun(r)
    /\ LET req == requests[r]
           i == IndexOf(heap, tasks, req.task_id)
           seen == [req EXCEPT !.i = i, !.start = [tasks |-> tasks, next_id |-> next_id]]
       IN  IF i = 0
           THEN /\ UNCHANGED <<tasks, next_id, created_ids, deleted, latest>>
                /\ Answer(r, seen, heap, [ok |-> FALSE, id |-> req.task_id, error |-> "none"])
           ELSE /\ Goto(r, seen, "delete_pop")
                /\ Inside
                /\ UNCHANGED <<heap, tasks, next_id>>

\* delete: del self._tasks[i]; return True
delete_pop(r) ==
    /\ requests[r].pc = "delete_pop"
    /\ CanRun(r)
    /\ LET req == requests[r]
       IN  IF req.i <= Len(tasks)
           THEN /\ tasks' = DelAt(tasks, req.i)
                /\ Answer(r, req, heap, [ok |-> TRUE, id |-> req.task_id, error |-> "none"])
                /\ deleted' = deleted \cup {req.task_id}
                /\ latest' = Unbind(latest, req.task_id)
                /\ UNCHANGED <<next_id, created_ids>>
           ELSE /\ UNCHANGED <<tasks, next_id, created_ids, deleted, latest>>
                /\ Answer(r, req, heap, [ok |-> FALSE, id |-> req.task_id, error |-> "IndexError"])

NextConcurrent ==
    \/ \E r \in Slots, s \in Submitted : Submit(r, s[1], s[2], s[3])
    \/ \E r \in Slots : Begin(r)
    \/ \E r \in Slots : create_id(r)
    \/ \E r \in Slots : create_append(r)
    \/ \E r \in Slots : create_load(r)
    \/ \E r \in Slots : create_store(r)
    \/ \E r \in Slots : update_scan(r)
    \/ \E r \in Slots : update_replace(r)
    \/ \E r \in Slots : delete_scan(r)
    \/ \E r \in Slots : delete_pop(r)

SpecConcurrent == Init /\ [][NextConcurrent]_vars

(***************************************************************************)
(* Vocabulary of the properties                                            *)
(***************************************************************************)

\* The step is a call of op (Tick alone moves the clock and leaves ret alone).
Called(op) == ret'.op = op /\ clock' = clock

\* The ids of the records of list ts, in list order.
Ids(h, ts) == [i \in 1..Len(ts) |-> h[ts[i]].id]

\* The list a find_all call just returned has the store's records in its order.
FindAllListsStore ==
    ret.op = "find_all" => (held # "none" /\ HeldList = tasks)

(***************************************************************************)
(* Properties                                                              *)
(***************************************************************************)

\* C1: on a fresh store the k-th create returns the record with id k, so N
\* creates return ids 1..N in call order.
C1_CreateIdsSequential ==
    \A k \in 1..Len(created_ids) : created_ids[k] = k

\* MaxTasks creates and no other write: every Task built is a stored record.
C1_Witness ==
    /\ Len(created_ids) = MaxTasks
    /\ Len(tasks) = MaxTasks
    /\ ret.op = "create"

\* C2: the ids returned by successive creates start at 1 and strictly increase,
\* whatever calls come between them; no id that was deleted is handed out again.
C2_CreateIdsIncreasing ==
    /\ Len(created_ids) > 0 => created_ids[1] = 1
    /\ \A i, j \in 1..Len(created_ids) : i < j => created_ids[i] < created_ids[j]
    /\ ret.op = "create" => ret.obj # None /\ heap[ret.obj[1]].id[1] \notin deleted

\* A create right after the most recently created record was deleted and the
\* store had become empty.
C2_Witness ==
    /\ ret.op = "create"
    /\ Len(tasks) = 1
    /\ Len(created_ids) >= 2
    /\ created_ids[Len(created_ids) - 1] \in deleted

\* C3: the store's list never holds two records with the same id.
C3_NoDuplicateIds ==
    \A i, j \in 1..Len(tasks) : i # j => heap[tasks[i]].id # heap[tasks[j]].id

\* Two records in the store, one of them just replaced by an update.
C3_Witness ==
    /\ Len(tasks) >= 2
    /\ ret.op = "update"
    /\ ret.ok

\* C4: a successful update(id, candidate) returns and stores, at the position of
\* the old record, a record with the given id, the old created_at and the
\* candidate's title and category; all other records and the id counter stay.
C4_UpdateFrame ==
    [][(Called("update") /\ ret'.ok) =>
         LET i == IndexOf(heap, tasks, ret'.task_id)
             o == ret'.obj[1]
         IN  /\ i # 0
             /\ ret'.obj # None
             /\ Len(tasks') = Len(tasks)
             /\ tasks'[i] = o
             /\ heap'[o].id = Some(ret'.task_id)
             /\ heap'[o].created_at = heap[tasks[i]].created_at
             /\ <<heap'[o].title, heap'[o].category>> = ret'.input
             /\ \A j \in 1..Len(tasks) :
                    j # i => /\ tasks'[j] = tasks[j]
                             /\ heap'[tasks[j]] = heap[tasks[j]]
             /\ next_id' = next_id
      ]_vars

\* An update has replaced a record later than it was created, while another
\* record is in the store.
C4_Witness ==
    /\ ret.op = "update"
    /\ ret.ok
    /\ Len(tasks) >= 2
    /\ heap[ret.obj[1]].created_at[1] < heap[ret.obj[1]].updated_at[1]

\* C5: every stored record has created_at <= updated_at, and right after create
\* the two are equal.
C5_CreatedBeforeUpdated ==
    /\ \A i \in 1..Len(tasks) :
           /\ heap[tasks[i]].created_at # None
           /\ heap[tasks[i]].updated_at # None
           /\ heap[tasks[i]].created_at[1] <= heap[tasks[i]].updated_at[1]
    /\ ret.op = "create" =>
           /\ ret.obj # None
           /\ heap[ret.obj[1]].created_at # None
           /\ heap[ret.obj[1]].created_at = heap[ret.obj[1]].updated_at

\* A stored record updated later than it was created.
C5_Witness ==
    \E i \in 1..Len(tasks) :
        heap[tasks[i]].created_at[1] < heap[tasks[i]].updated_at[1]

\* C6, as claimed: every successful update makes updated_at strictly greater
\* than it was before the update.
C6_UpdatedAtStrictlyIncreases ==
    [][(Called("update") /\ ret'.ok) =>
         LET i == IndexOf(heap, tasks, ret'.task_id)
         IN  heap'[ret'.obj[1]].updated_at[1] > heap[tasks[i]].updated_at[1]
      ]_vars

\* C6, amended: a successful update sets updated_at to the clock's reading, which
\* is never below the old value and is above it exactly when the clock has moved
\* since the record was last written.
C6_UpdatedAtFollowsClock ==
    [][(Called("update") /\ ret'.ok) =>
         LET i == IndexOf(heap, tasks, ret'.task_id)
             was == heap[tasks[i]].updated_at[1]
             is == heap'[ret'.obj[1]].updated_at[1]
         IN  /\ is = clock
             /\ is >= was
             /\ (is > was) <=> (clock > was)
      ]_vars

\* The second of two updates of the only record ever created, with updated_at
\* above created_at.
C6_Witness ==
    /\ ret.op = "update"
    /\ ret.ok
    /\ Len(created_ids) = 1
    /\ Len(heap) = 3
    /\ heap[ret.obj[1]].updated_at[1] > heap[ret.obj[1]].created_at[1]

\* C7: find_all returns a list of its own: the caller appending to it, removing
\* from it or reversing it changes neither the store's list, nor its records,
\* nor the counter, so later find_all and find_by_id calls see the same store.
C7_FindAllReturnsCopy ==
    /\ [][ret'.op \in {"caller_append", "caller_remove", "caller_reverse"} =>
            /\ tasks' = tasks
            /\ next_id' = next_id
            /\ \A i \in 1..Len(tasks) : heap'[tasks[i]] = heap[tasks[i]]
         ]_vars
    /\ []FindAllListsStore

\* The caller has edited the list it got and it now differs from the store's.
C7_Witness ==
    /\ ret.op \in {"caller_append", "caller_remove", "caller_reverse"}
    /\ held # "none"
    /\ Len(tasks) >= 2
    /\ HeldList # tasks

\* C8: the store lists its records in creation order, which is ascending id
\* order, find_all returns them in that order, and a successful update leaves
\* the sequence of ids as it was.
C8_OrderKept ==
    /\ [](\A i, j \in 1..Len(tasks) :
            i < j => heap[tasks[i]].id[1] < heap[tasks[j]].id[1])
    /\ []FindAllListsStore
    /\ [][(Called("update") /\ ret'.ok) => Ids(heap', tasks') = Ids(heap, tasks)]_vars

\* find_all lists first a record that an update put in place of the first of
\* two records.
C8_Witness ==
    /\ ret.op = "find_all"
    /\ Len(HeldList) >= 2
    /\ HeldList[1] = Len(heap)
    /\ Len(heap) > Len(created_ids)

\* C9: delete(k) of a stored id k returns true and leaves the list without its
\* record of id k, one shorter, the other records unchanged and in their order;
\* the find_all that follows returns that list.
C9_DeleteRemovesOne ==
    /\ [][Called("delete") =>
            LET k == ret'.task_id
                i == IndexOf(heap, tasks, k)
            IN  i # 0 =>
                  /\ ret'.ok
                  /\ Len(tasks') = Len(tasks) - 1
                  /\ \A j \in 1..Len(tasks') : heap'[tasks'[j]].id # Some(k)
                  /\ tasks' = DelAt(tasks, i)
                  /\ \A j \in 1..Len(tasks') : heap'[tasks'[j]] = heap[tasks'[j]]
         ]_vars
    /\ []FindAllListsStore

\* The middle one of three records was deleted: ids 1 and 3 remain, in order.
C9_Witness ==
    /\ ret.op = "delete"
    /\ ret.ok
    /\ ret.task_id = 2
    /\ Ids(heap, tasks) = <<Some(1), Some(3)>>

\* C10: delete of an id that is not in the store returns false and leaves the
\* list, its records and the id counter as they were.
C10_DeleteMissing ==
    [][Called("delete") =>
         LET k == ret'.task_id
         IN  IndexOf(heap, tasks, k) = 0 =>
               /\ ~ret'.ok
               /\ tasks' = tasks
               /\ next_id' = next_id
               /\ \A j \in 1..Len(tasks) : heap'[tasks[j]] = heap[tasks[j]]
      ]_vars

\* The second delete of an id returned false while another record is stored.
C10_Witness ==
    /\ ret.op = "delete"
    /\ ~ret.ok
    /\ ret.task_id \in deleted
    /\ Len(tasks) >= 1

\* The ids create has returned so far.
Created == {created_ids[j] : j \in 1..Len(created_ids)}

\* C11: find_by_id(k) returns a record exactly when k was returned by an
\* earlier create and has not been deleted since; the record has id k and the
\* title and category of the latest successful create or update for k.
\* Otherwise it returns None.  The latest find_by_id call returned just that.
C11_FindByIdKnowsLiveIds ==
    /\ \A k \in TaskIds :
         LET r == find_by_id(heap, tasks, k)
         IN  IF k \in Created \ deleted
             THEN /\ r # None
                  /\ heap[r[1]].id = Some(k)
                  /\ <<heap[r[1]].title, heap[r[1]].category>> = latest[k]
             ELSE r = None
    /\ ret.op = "find_by_id" =>
         /\ ret.obj = find_by_id(heap, tasks, ret.task_id)
         /\ ret.ok = (ret.task_id \in Created \ deleted)

\* find_by_id found a record that was updated at a later clock reading than it
\* was created, after a record with a smaller id had been deleted.
C11_Witness ==
    /\ ret.op = "find_by_id"
    /\ ret.ok
    /\ \E d \in deleted : d < ret.task_id
    /\ heap[ret.obj[1]].created_at # heap[ret.obj[1]].updated_at

\* C12: update with an id that is not in the store returns None, adds no record
\* and leaves the list, its records, their order and the id counter as they were.
C12_UpdateMissing ==
    [][Called("update") =>
         LET k == ret'.task_id
         IN  IndexOf(heap, tasks, k) = 0 =>
               /\ ret'.obj = None
               /\ ~ret'.ok
               /\ Len(tasks') = Len(tasks)
               /\ tasks' = tasks
               /\ next_id' = next_id
               /\ \A j \in 1..Len(tasks) : heap'[tasks[j]] = heap[tasks[j]]
      ]_vars

\* update of a deleted id returned None while another record is stored.
C12_Witness ==
    /\ ret.op = "update"
    /\ ~ret.ok
    /\ ret.obj = None
    /\ ret.task_id \in deleted
    /\ Len(tasks) >= 1

\* C13: on a fresh store the calls create(Task 1/Work), create(Task 2/Personal),
\* update(1, Updated Task 1/Work Updated), delete(2), find_all give: ids 1 and 2
\* for the two creates, a record titled "Updated Task 1" for the update, True
\* for the delete, and a last list of exactly one record, with id 1 and title
\* "Updated Task 1".
C13_ComplexWorkflow ==
    workflow.on =>
        /\ workflow.n >= 1 => created_ids[1] = 1
        /\ workflow.n >= 2 => created_ids[2] = 2
        /\ (workflow.n \in 1..2 /\ ret.op = "create") =>
               heap[ret.obj[1]].id = Some(workflow.n)
        /\ (workflow.n = 3 /\ ret.op = "update") =>
               /\ ret.obj # None
               /\ heap[ret.obj[1]].title = "Updated Task 1"
        /\ (workflow.n = 4 /\ ret.op = "delete") => ret.ok
        /\ workflow.n = 5 =>
               /\ held # "none"
               /\ Len(HeldList) = 1
               /\ heap[HeldList[1]].id = Some(1)
               /\ heap[HeldList[1]].title = "Updated Task 1"

\* The five calls of the workflow have been made, the last being find_all.
C13_Witness ==
    /\ workflow.on
    /\ workflow.n = Len(test_complex_workflow)
    /\ ret.op = "find_all"
    /\ deleted = {2}

\* Routes with an id in the path.
GetRoute == "GET /tasks/{task_id}"
PutRoute == "PUT /tasks/{task_id}"
DeleteRoute == "DELETE /tasks/{task_id}"

\* C14: DELETE /tasks/{id} is never answered 404 and, no call failing, always
\* 200.  A 200 carries "Task {id} eliminada correctamente" exactly when a
\* record with that id was in the store and this request removed it, and
\* "Task {id} no encontrada" exactly when no such record was in the store.
C14_DeleteAnswers200 ==
    [][resp'.endpoint = DeleteRoute =>
         LET k == resp'.task_id
             was == IndexOf(heap, tasks, k) # 0
         IN  /\ resp'.status # 404
             /\ resp'.fault = "none" => resp'.status = 200
             /\ resp'.status = 200 =>
                  /\ resp'.out # None
                  /\ resp'.out[1].message = <<"Task", k, "eliminada correctamente">>
                       <=> /\ was
                           /\ IndexOf(heap', tasks', k) = 0
                           /\ Len(tasks') = Len(tasks) - 1
                  /\ resp'.out[1].message = <<"Task", k, "no encontrada">>
                       <=> ~was
      ]_vars

\* A DELETE for an id that an earlier DELETE removed was answered 200 with the
\* not-found message.
C14_Witness ==
    /\ resp.endpoint = DeleteRoute
    /\ resp.status = 200
    /\ resp.task_id \in deleted
    /\ resp.out[1].message = <<"Task", resp.task_id, "no encontrada">>

\* C15: GET and PUT /tasks/{id} with a valid body are answered 404 only when
\* the store holds no record with that id at the time of the request, then
\* with detail "Task not found"; no call failing, they are answered 404 in
\* exactly that case and otherwise 200 with the record as stored after the
\* request, which for PUT carries the title and category of the body.  The 404
\* raised inside the handler is not turned into a 500.
C15_NotFoundIs404 ==
    [][(resp'.endpoint \in {GetRoute, PutRoute} /\ resp'.status # 422) =>
         LET k == resp'.task_id
             was == IndexOf(heap, tasks, k) # 0
         IN  /\ resp'.status = 404 => (~was /\ resp'.detail = "Task not found")
             /\ resp'.fault = "none" =>
                  IF was
                  THEN /\ resp'.status = 200
                       /\ resp'.out # None
                       /\ resp'.out[1].id = k
                       /\ resp'.out[1] =
                            from_task(heap', tasks'[IndexOf(heap', tasks', k)])
                       /\ resp'.endpoint = PutRoute =>
                            <<resp'.out[1].title, resp'.out[1].category>> = ret'.input
                  ELSE /\ resp'.status = 404
                       /\ resp'.detail = "Task not found"
                       /\ resp'.out = None
      ]_vars

\* A PUT for the id of a record that a DELETE had removed was answered 404.
C15_Witness ==
    /\ resp.endpoint = PutRoute
    /\ resp.status = 404
    /\ resp.detail = "Task not found"
    /\ resp.fault = "none"
    /\ resp.task_id \in deleted

\* C16: whichever endpoint, a request during which the service raised is
\* answered 500 with detail "Internal server error" and no body; the message of
\* the exception is not in the response.
C16_ServiceErrorIs500 ==
    resp.fault \in {"service_first", "service_second"} =>
        /\ resp.status = 500
        /\ resp.detail = "Internal server error"
        /\ resp.detail # LoggerError.detail
        /\ resp.out = None

\* The service raised in a PUT after the use case had updated the record.
C16_Witness ==
    /\ resp.endpoint = PutRoute
    /\ resp.fault = "service_second"
    /\ resp.status = 500
    /\ ret.op = "update"
    /\ ret.ok

\* C17: POST /tasks/ and PUT /tasks/{id} are answered 422 exactly when the
\* body lacks title or category; then no store call is made and the list, its
\* records and the id counter stay as they were, so that the record of the
\* next 201 has the id the counter held before the rejected request.
C17_InvalidBodyIs422 ==
    [][resp'.endpoint \in {"POST /tasks/", PutRoute} =>
         /\ resp'.status = 422 <=> ~({"title", "category"} \subseteq resp'.fields)
         /\ resp'.status = 422 =>
              /\ store_log' = <<>>
              /\ ret' = ret
              /\ tasks' = tasks
              /\ next_id' = next_id
              /\ \A j \in 1..Len(tasks) : heap'[tasks[j]] = heap[tasks[j]]
         /\ resp'.status = 201 => resp'.out[1].id = next_id
      ]_vars

\* A PUT without category for the id of a stored record was answered 422.
C17_Witness ==
    /\ resp.endpoint = PutRoute
    /\ resp.status = 422
    /\ resp.fields = {"title"}
    /\ IndexOf(heap, tasks, resp.task_id) # 0

\* The status of a request when every logger call returns; found tells whether
\* the store held the id of the path when the request arrived.
StatusWithoutFailure(endpoint, found) ==
    CASE endpoint = "POST /tasks/" -> 201
      [] endpoint = "GET /tasks/" -> 200
      [] endpoint = DeleteRoute -> 200
      [] OTHER -> IF found THEN 200 ELSE 404

\* C18: a logger call that raises during a request leaves the response as it
\* would have been had the call returned.
C18_LoggerFailureHarmless ==
    [][(resp'.endpoint # "none" /\ resp'.fault # "none") =>
         resp'.status =
             StatusWithoutFailure(resp'.endpoint,
                                  IndexOf(heap, tasks, resp'.task_id) # 0)
      ]_vars

\* C19: each use case makes exactly one store call, the one of its name with
\* the id it was given, and returns what that call returned; create and update
\* pass a newly built record with the given title and category and no id or
\* timestamps.  The only thing a use case holds is its Context.
C19_UseCasesPassThrough ==
    /\ context = create_usecases
    /\ ret.op \in {"create", "find_all", "find_by_id", "update", "delete"} =>
         /\ Len(store_log) = 1
         /\ store_log[1].op = ret.op
         /\ store_log[1].task_id = ret.task_id
         /\ ret.op \in {"create", "update"} =>
              /\ store_log[1].candidate = Some(Task(ret.input[1], ret.input[2]))
              /\ store_log[1].candidate[1].id = None
              /\ store_log[1].candidate[1].created_at = None
              /\ store_log[1].candidate[1].updated_at = None
              /\ ret.obj = store_log[1].result
         /\ ret.op = "find_by_id" => ret.obj = store_log[1].result
         /\ ret.op = "delete" => store_log[1].result = Some(ret.ok)
         /\ ret.op = "find_all" => (held = "copy" /\ store_log[1].result = Some(copy))

\* The update use case returned the record of its one store call, with two
\* records stored.
C19_Witness ==
    /\ ret.op = "update"
    /\ ret.ok
    /\ Len(store_log) = 1
    /\ store_log[1].result = ret.obj
    /\ Len(tasks) >= 2

\* The ids created and not deleted since, in the order they were created.
Remaining(ids) == SelectSeq(ids, LAMBDA k : k \notin deleted)

\* C20: all five use cases hold the same Context, so a record that a POST
\* created is found by GET /tasks/{id}, listed by GET /tasks/, updated by PUT
\* and removed by DELETE, until a DELETE for its id has succeeded; after that,
\* and for ids no POST returned, GET and PUT answer 404 and DELETE "no
\* encontrada".
C20_OneStoreForAll ==
    /\ \A u \in UseCases : context[u] = context["create"]
    /\ (resp.fault = "none" /\ resp.status # 422) =>
         LET k == resp.task_id
             alive == k \in Created \ deleted
         IN  /\ resp.endpoint = "POST /tasks/" =>
                  /\ resp.status = 201
                  /\ resp.out[1].id \in Created \ deleted
             /\ resp.endpoint = "GET /tasks/" =>
                  /\ resp.status = 200
                  /\ [i \in 1..Len(resp.out[1]) |-> resp.out[1][i].id]
                       = Remaining(created_ids)
             /\ resp.endpoint = GetRoute =>
                  /\ resp.status = 200 <=> alive
                  /\ resp.status = 200 =>
                       /\ resp.out[1].id = k
                       /\ <<resp.out[1].title, resp.out[1].category>> = latest[k]
             /\ resp.endpoint = PutRoute => (resp.status = 200 <=> alive)
             /\ resp.endpoint = DeleteRoute =>
                  /\ resp.out[1].message[3] = "eliminada correctamente" =>
                       (k \in Created /\ k \in deleted)
                  /\ resp.out[1].message[3] = "no encontrada" => ~alive

\* The one record a POST created was updated by a PUT and has now been removed
\* by a DELETE.
C20_Witness ==
    /\ resp.endpoint = DeleteRoute
    /\ resp.status = 200
    /\ resp.out[1].message[3] = "eliminada correctamente"
    /\ created_ids = <<1>>
    /\ deleted = {1}
    /\ Len(heap) = MaxHttpTasks
    /\ tasks = <<>>

\* C22: the id counter is 1 plus the number of create calls made so far, every
\* stored record has an id from 1 to the counter minus 1, and find_all,
\* find_by_id, update and delete leave the counter as it was.
C22_CounterCountsCreates ==
    /\ [](/\ next_id = 1 + Len(created_ids)
          /\ \A i \in 1..Len(tasks) :
               /\ heap[tasks[i]].id # None
               /\ heap[tasks[i]].id[1] \in 1..(next_id - 1))
    /\ [][(ret'.op \in {"find_all", "find_by_id", "update", "delete"}
             /\ clock' = clock) => next_id' = next_id]_vars

\* A delete succeeded after as many creates as the bound allows: the counter
\* is past the number of records stored.
C22_Witness ==
    /\ ret.op = "delete"
    /\ ret.ok
    /\ Len(created_ids) = MaxTasks
    /\ next_id = MaxTasks + 1
    /\ Len(tasks) = MaxTasks - 1

\* C23: once delete(k) has returned True no record with id k is in the store
\* again: find_by_id(k) and update(k, ...) return None, delete(k) returns
\* False, and no create or update stores a record with id k.
C23_DeletedIdsStayGone ==
    /\ [](\A k \in deleted : IndexOf(heap, tasks, k) = 0)
    /\ [][(ret'.op \in {"find_by_id", "update", "delete"} /\ clock' = clock
             /\ ret'.task_id \in deleted) =>
            /\ ~ret'.ok
            /\ ret'.op \in {"find_by_id", "update"} => ret'.obj = None
            /\ tasks' = tasks
      ]_vars
    /\ [][(ret'.op \in {"create", "update"} /\ clock' = clock /\ ret'.obj # None) =>
            heap'[ret'.obj[1]].id[1] \notin deleted
      ]_vars

\* find_by_id of a deleted id returned None while a record created later is
\* stored.
C23_Witness ==
    /\ ret.op = "find_by_id"
    /\ ~ret.ok
    /\ ret.task_id \in deleted
    /\ \E i \in 1..Len(tasks) : heap[tasks[i]].id[1] > ret.task_id

\* C24: find_all and find_by_id, with any argument and in any state, leave the
\* list, the order and the fields of its records and the id counter as they
\* were.
C24_FindsReadOnly ==
    [][(ret'.op \in {"find_all", "find_by_id"} /\ clock' = clock) =>
         /\ tasks' = tasks
         /\ next_id' = next_id
         /\ \A j \in 1..Len(tasks) : heap'[tasks[j]] = heap[tasks[j]]
      ]_vars

\* find_by_id found the second of two stored records after a delete.
C24_Witness ==
    /\ ret.op = "find_by_id"
    /\ ret.ok
    /\ Len(tasks) >= 2
    /\ ret.obj = Some(tasks[2])
    /\ deleted # {}

\* C25: with every create and update given a newly built record, a list that
\* find_all returned keeps its length, its order and the field values of its
\* records through every later create, update and delete on the store.
C25_FindAllSnapshotStable ==
    [][(ret'.op \in {"create", "update", "delete"} /\ held # "none") =>
         /\ HeldList' = HeldList
         /\ \A i \in 1..Len(HeldList) : heap'[HeldList[i]] = heap[HeldList[i]]
      ]_vars

\* The caller holds a list with a record that an update has since replaced in
\* the store under the same id with another title.
C25_Witness ==
    /\ held = "copy"
    /\ ret.op = "update"
    /\ ret.ok
    /\ \E i \in 1..Len(copy) :
         /\ copy[i] \notin Range(tasks)
         /\ heap[copy[i]].id = Some(ret.task_id)
         /\ heap[copy[i]].title # heap[ret.obj[1]].title

\* The fields of a record that only create may set, and its contents.
Kept(rec) == <<rec.id, rec.title, rec.category, rec.created_at>>

\* C26: for any candidate, also a Task object the store already holds, create
\* adds exactly one record and a successful update replaces exactly one, and
\* the id, title, category and created_at of every other record of the store
\* stay as they were.
C26_OtherRecordsUntouched ==
    [][/\ Called("create") =>
            /\ Len(tasks') = Len(tasks) + 1
            /\ \A j \in 1..Len(tasks) :
                 /\ tasks'[j] = tasks[j]
                 /\ Kept(heap'[tasks'[j]]) = Kept(heap[tasks[j]])
       /\ (Called("update") /\ ret'.ok) =>
            /\ Len(tasks') = Len(tasks)
            /\ \A j \in 1..Len(tasks) :
                 j # IndexOf(heap, tasks, ret'.task_id) =>
                     Kept(heap'[tasks'[j]]) = Kept(heap[tasks[j]])
      ]_vars

\* C27: create, update and find_by_id return the stored Task object itself and
\* the list find_all returns holds the stored objects; so a write to a field
\* of an object obtained from any of them, made without any store call, is a
\* write to the stored record and shows in every later find_all and find_by_id.
C27_ReturnedRecordsAreShared ==
    /\ [][(ret'.op \in {"create", "update", "find_by_id"} /\ ret'.obj # None
             /\ Called(ret'.op)) => ret'.obj[1] \in Range(tasks')]_vars
    /\ [][ret'.op = "find_all" => (held' # "none" /\ HeldList' = tasks')]_vars
    /\ [][ret'.op = "caller_set" =>
            LET o == ret'.obj[1]
                field == ret'.input[1]
                shows(rec) == IF field = "title" THEN rec.title = ExternalTitle
                              ELSE rec.id = Some(0)
            IN  /\ store_log' = <<>>
                /\ tasks' = tasks
                /\ o \in Range(tasks)
                /\ \E i \in 1..Len(tasks') :
                     /\ find_all(tasks').items[i] = o
                     /\ shows(heap'[find_all(tasks').items[i]])
                /\ \A k \in TaskIds :
                     find_by_id(heap', tasks', k) = Some(o) =>
                         shows(heap'[find_by_id(heap', tasks', k)[1]])
      ]_vars

\* find_by_id returned, for an id create issued, a record with the title the
\* caller wrote into the object it held; no update was given that title.
C27_Witness ==
    /\ ret.op = "find_by_id"
    /\ ret.ok
    /\ ret.task_id \in Created
    /\ heap[ret.obj[1]].title = ExternalTitle
    /\ latest[ret.task_id][1] # ExternalTitle

\* C28: a POST /tasks/ or PUT /tasks/{id} that is answered 500 leaves the
\* list, its records and the id counter as they were before the request.
C28_FailedWriteLeavesStore ==
    [][(resp'.endpoint \in {"POST /tasks/", PutRoute} /\ resp'.status = 500) =>
         /\ tasks' = tasks
         /\ next_id' = next_id
         /\ \A j \in 1..Len(tasks) : heap'[tasks[j]] = heap[tasks[j]]
      ]_vars

\* The positions of a store method after its first read of the store and
\* before its last write, and all the positions inside a store method.
Between == {"create_append", "create_load", "create_store", "update_replace", "delete_pop"}
InMethod == Between \cup {"create_id", "update_scan", "delete_scan"}

\* C21: on the event loop, while one request's store method is between its first
\* read and its last write no other request's store method takes a step;
\* creates that were in flight together return different ids and the stored
\* ids stay distinct; and every store method leaves the store as the whole
\* method, run in one piece on the store it first read, would leave it, so the
\* outcome is that of running the requests one after another in the order
\* their store methods finished.  No method fails on an index that moved.
C21_NoLockingNeeded ==
    /\ [][\A r, q \in Slots :
            (r # q /\ requests[r].pc \in Between /\ requests[q].pc \in InMethod) =>
                requests'[q] = requests[q]]_vars
    /\ [](\A r, q \in Slots :
            (r # q /\ requests[r].pc = "done" /\ requests[q].pc = "done"
                 /\ requests[r].op = "create" /\ requests[q].op = "create") =>
                requests[r].result.id # requests[q].result.id)
    /\ [](\A i, j \in 1..Len(tasks) : heap[tasks[i]].id = heap[tasks[j]].id => i = j)
    /\ [][\A r \in Slots :
            (requests[r].pc \in InMethod /\ requests'[r].pc = "done") =>
                LET req == requests'[r]
                    st == req.start
                IN  /\ req.result.error = "none"
                    /\ req.op = "create" =>
                          LET a == create(heap, st.tasks, st.next_id, req.task)
                          IN  /\ tasks' = a.tasks
                              /\ next_id' = a.next_id
                              /\ heap'[req.task] = a.heap[req.task]
                              /\ req.result.ok
                              /\ req.result.id = st.next_id
                    /\ req.op = "update" =>
                          LET a == update(heap, st.tasks, req.task_id, req.task)
                          IN  /\ tasks' = a.tasks
                              /\ next_id' = st.next_id
                              /\ req.result.ok <=> a.result # None
                              /\ req.result.ok => heap'[req.task] = a.heap[req.task]
                    /\ req.op = "delete" =>
                          LET a == delete(heap, st.tasks, req.task_id)
                          IN  /\ tasks' = a.tasks
                              /\ next_id' = st.next_id
                              /\ req.result.ok = a.result
      ]_vars

\* Two creates were in flight together: the one submitted second ran first and
\* received id 1, the one submitted first received id 2.
C21_Witness ==
    /\ requests[1].op = "create" /\ requests[1].pc = "done"
    /\ requests[2].op = "create" /\ requests[2].pc = "done"
    /\ requests[2].result.id = 1
    /\ requests[1].result.id = 2
    /\ next_id = 3
    /\ Len(tasks) = 2

====
